---- MODULE Spec2Model ----
(***************************************************************************)
(* A model of the tokenizer of tl (src/src/tokenizer.rs) and of its        *)
(* escape decoder (src/src/utils.rs, handle_string_escapes).               *)
(*                                                                         *)
(* A character is a one-character string; a text (a Rust String or &str)   *)
(* is a sequence of characters.  The NUL character, which a TLA+ string    *)
(* cannot hold, is the string Nul.  The cursor `chars` (a                   *)
(* Peekable<Chars>) is the number `pos` of characters already consumed:    *)
(* chars.peek() is input[pos + 1] and chars.next() is pos' = pos + 1.      *)
(***************************************************************************)
EXTENDS Integers, Sequences, FiniteSets, TLC

VARIABLES
    input,      \* tokenize: the text being tokenized
    pos,        \* tokenize: how many characters `chars` has consumed
    tokens,     \* tokenize: the Vec<Token> built so far
    result,     \* tokenize: what the call returned, once it has
    spans,      \* history: <<start, end>> of the source span of each token
    iters,      \* history: how many iterations the dispatch loop has run
    raw,        \* handle_string_escapes: the argument it was called with
    original,   \* handle_string_escapes: the local `original`
    idx         \* handle_string_escapes: how many replacements were applied

vars == <<input, pos, tokens, result, spans, iters, raw, original, idx>>

tokVars == <<input, pos, tokens, result, spans, iters>>

escVars == <<raw, original, idx>>

-----------------------------------------------------------------------------
(* Characters *)

Nul == "NUL"

Digits == {"0", "1", "2", "3", "4", "5", "6", "7", "8", "9"}

LowerLetters ==
    {"a", "b", "c", "d", "e", "f", "g", "h", "i", "j", "k", "l", "m",
     "n", "o", "p", "q", "r", "s", "t", "u", "v", "w", "x", "y", "z"}

UpperLetters ==
    {"A", "B", "C", "D", "E", "F", "G", "H", "I", "J", "K", "L", "M",
     "N", "O", "P", "Q", "R", "S", "T", "U", "V", "W", "X", "Y", "Z"}

\* char::is_alphanumeric, on the characters of the model
IsAlphanumeric(ch) == ch \in Digits \cup LowerLetters \cup UpperLetters

\* the guard of the word arm, taking '.' too
IsWordStart_WithDot(ch) == IsAlphanumeric(ch) \/ ch = "_" \/ ch = "."

\* the guard of the word arm of tokenize
IsWordStart(ch) == IsAlphanumeric(ch) \/ ch = "_"

\* the loop condition without its '.'
IsWordChar_NoDot(ch) == IsAlphanumeric(ch) \/ ch = "_"

\* the loop condition of tokenize_multi_char
IsWordChar(ch) == IsAlphanumeric(ch) \/ ch = "_" \/ ch = "."

WhitespaceChars == {" ", "\t", "\n"}

FixedChars == {"(", ")", "[", "]", "{", "}", "+", "-", "*", "="}

\* the token each single-character arm of tokenize pushes
FixedTokenType(ch) ==
    CASE ch = "(" -> "LParen"
      [] ch = ")" -> "RParen"
      [] ch = "[" -> "LBracket"
      [] ch = "]" -> "RBracket"
      [] ch = "{" -> "LBrace"
      [] ch = "}" -> "RBrace"
      [] ch = "+" -> "Plus"
      [] ch = "-" -> "Minus"
      [] ch = "*" -> "Multiply"
      [] ch = "=" -> "Equals"

\* a Token: its variant and its payload, a text (<<>> for a variant without)
Token(type, value) == [type |-> type, value |-> value]

-----------------------------------------------------------------------------
(* Texts *)

\* Body(e), with e evaluated once: a binding of a local to a value
With(e, Body(_)) == CHOOSE v \in {Body(x) : x \in {e}} : TRUE

Tail2(s) == SubSeq(s, 3, Len(s))

StartsWith(s, pat) == Len(s) >= Len(pat) /\ SubSeq(s, 1, Len(pat)) = pat

RECURSIVE StripLeadingZeros(_)
StripLeadingZeros(d) ==
    IF Len(d) > 1 /\ d[1] = "0" THEN StripLeadingZeros(Tail(d)) ELSE d

RECURSIVE StripTrailingZeros(_)
StripTrailingZeros(d) ==
    IF Len(d) > 1 /\ d[Len(d)] = "0"
    THEN StripTrailingZeros(SubSeq(d, 1, Len(d) - 1))
    ELSE d

AllDigits(s) == \A i \in 1..Len(s) : s[i] \in Digits

Drop(s, n) == SubSeq(s, n + 1, Len(s))

\* the length of the run of ASCII digits that s starts with
RECURSIVE DigitRun(_)
DigitRun(s) ==
    IF s # <<>> /\ s[1] \in Digits THEN 1 + DigitRun(Tail(s)) ELSE 0

LowerSeq ==
    <<"a", "b", "c", "d", "e", "f", "g", "h", "i", "j", "k", "l", "m",
      "n", "o", "p", "q", "r", "s", "t", "u", "v", "w", "x", "y", "z">>

UpperSeq ==
    <<"A", "B", "C", "D", "E", "F", "G", "H", "I", "J", "K", "L", "M",
      "N", "O", "P", "Q", "R", "S", "T", "U", "V", "W", "X", "Y", "Z">>

ToAsciiLowercase(ch) ==
    IF ch \in UpperLetters
    THEN LowerSeq[CHOOSE i \in 1..26 : UpperSeq[i] = ch]
    ELSE ch

LowerText(s) == [i \in 1..Len(s) |-> ToAsciiLowercase(s[i])]

-----------------------------------------------------------------------------
(* value.parse::<u64>(): an optional '+', then one or more ASCII digits    *)
(* whose value is at most u64::MAX.  The value is kept as its decimal      *)
(* digits without leading zeros, so that no 64-bit arithmetic is needed.   *)

DigitValue(ch) ==
    CASE ch = "0" -> 0 [] ch = "1" -> 1 [] ch = "2" -> 2 [] ch = "3" -> 3
      [] ch = "4" -> 4 [] ch = "5" -> 5 [] ch = "6" -> 6 [] ch = "7" -> 7
      [] ch = "8" -> 8 [] ch = "9" -> 9

\* u64::MAX = 18446744073709551615
U64MaxDigits ==
    <<"1", "8", "4", "4", "6", "7", "4", "4", "0", "7",
      "3", "7", "0", "9", "5", "5", "1", "6", "1", "5">>

\* a <= b, for two digit texts of the same length
RECURSIVE DigitsLeq(_, _)
DigitsLeq(a, b) ==
    IF a = <<>> THEN TRUE
    ELSE IF DigitValue(a[1]) < DigitValue(b[1]) THEN TRUE
    ELSE IF DigitValue(a[1]) > DigitValue(b[1]) THEN FALSE
    ELSE DigitsLeq(Tail(a), Tail(b))

\* a parse that wraps around instead of failing on overflow
FitsU64_Wrapping(d) == TRUE

\* the digits d denote a number that a u64 holds (no checked_mul or
\* checked_add of the parse overflows)
FitsU64(d) ==
    LET n == StripLeadingZeros(d)
    IN  Len(n) < Len(U64MaxDigits)
        \/ (Len(n) = Len(U64MaxDigits) /\ DigitsLeq(n, U64MaxDigits))

U64Body(v) == IF v # <<>> /\ v[1] = "+" THEN Tail(v) ELSE v

ParseU64Ok(v) ==
    LET d == U64Body(v)
    IN  d # <<>> /\ AllDigits(d) /\ FitsU64(d)

ParseU64(v) == StripLeadingZeros(U64Body(v))

-----------------------------------------------------------------------------
(* value.parse::<f64>() (core::num::dec2flt): an optional sign, then       *)
(*   Number ::= ( Digit+ | Digit+ '.' Digit* | Digit* '.' Digit+ ) Exp?    *)
(*   Exp    ::= ('e' | 'E') Sign? Digit+                                   *)
(* or, in any letter case, one of inf, infinity, nan.  The value is kept   *)
(* as a normalised decimal text; the rounding to the nearest f64 is not    *)
(* modelled.                                                               *)

\* parse_partial_number, on the text after the sign
ParseDecimal(s) ==
    LET i        == DigitRun(s)
        afterInt == Drop(s, i)
        hasDot   == afterInt # <<>> /\ afterInt[1] = "."
        afterDot == IF hasDot THEN Tail(afterInt) ELSE afterInt
        f        == IF hasDot THEN DigitRun(afterDot) ELSE 0
        rest     == Drop(afterDot, f)
        hasExp   == rest # <<>> /\ rest[1] \in {"e", "E"}
        expText  == IF hasExp THEN Tail(rest) ELSE <<>>
        expSign  == expText # <<>> /\ expText[1] \in {"+", "-"}
        expNeg   == expText # <<>> /\ expText[1] = "-"
        expBody  == IF expSign THEN Tail(expText) ELSE expText
        e        == DigitRun(expBody)
    IN  [ok     |-> /\ i + f > 0
                    /\ IF hasExp THEN e > 0 /\ e = Len(expBody)
                                 ELSE rest = <<>>,
         int    |-> SubSeq(s, 1, i),
         frac   |-> SubSeq(afterDot, 1, f),
         expNeg |-> expNeg,
         exp    |-> expBody]

\* parse_inf_nan, on the text after the sign
IsInfNan(s) ==
    LowerText(s) \in {<<"n", "a", "n">>, <<"i", "n", "f">>,
                      <<"i", "n", "f", "i", "n", "i", "t", "y">>}

F64Sign(v) == v # <<>> /\ v[1] \in {"+", "-"}

F64Body(v) == IF F64Sign(v) THEN Tail(v) ELSE v

ParseF64Ok(v) ==
    LET s == F64Body(v)
    IN  s # <<>> /\ (ParseDecimal(s).ok \/ IsInfNan(s))

ParseF64(v) ==
    LET s   == F64Body(v)
        neg == IF v # <<>> /\ v[1] = "-" THEN <<"-">> ELSE <<>>
        d   == ParseDecimal(s)
        e   == StripLeadingZeros(d.exp)
    IN  IF d.ok
        THEN neg
             \o StripLeadingZeros(IF d.int = <<>> THEN <<"0">> ELSE d.int)
             \o <<".">>
             \o StripTrailingZeros(IF d.frac = <<>> THEN <<"0">> ELSE d.frac)
             \o (IF d.exp = <<>> \/ e = <<"0">> THEN <<>>
                 ELSE <<"e">> \o (IF d.expNeg THEN <<"-">> ELSE <<>>) \o e)
        ELSE IF LowerText(s) = <<"n", "a", "n">> THEN <<"N", "a", "N">>
        ELSE neg \o <<"i", "n", "f">>

-----------------------------------------------------------------------------
(* tokenize_multi_char *)

\* the while loop: how many characters are consumed once the loop ends,
\* starting with p consumed
RECURSIVE WordEnd(_, _)
WordEnd(s, p) ==
    IF p < Len(s) /\ IsWordChar(s[p + 1]) THEN WordEnd(s, p + 1) ELSE p

\* the match with the float arm before the integer arm
ClassifyWord_FloatFirst(value) ==
    IF ParseF64Ok(value) THEN Token("Float", ParseF64(value))
    ELSE IF ParseU64Ok(value) THEN Token("Number", ParseU64(value))
    ELSE IF value = <<"t", "r", "u", "e">> THEN Token("Bool", <<"true">>)
    ELSE IF value = <<"f", "a", "l", "s", "e">> THEN Token("Bool", <<"false">>)
    ELSE IF value = <<"l", "e", "t">> THEN Token("Let", <<>>)
    ELSE IF value = <<"i", "m", "p", "o", "r", "t">> THEN Token("Import", <<>>)
    ELSE Token("Identifier", value)

\* the match on value.as_str(): the first arm that matches decides
ClassifyWord(value) ==
    IF ParseU64Ok(value) THEN Token("Number", ParseU64(value))
    ELSE IF ParseF64Ok(value) THEN Token("Float", ParseF64(value))
    ELSE IF value = <<"t", "r", "u", "e">> THEN Token("Bool", <<"true">>)
    ELSE IF value = <<"f", "a", "l", "s", "e">> THEN Token("Bool", <<"false">>)
    ELSE IF value = <<"l", "e", "t">> THEN Token("Let", <<>>)
    ELSE IF value = <<"i", "m", "p", "o", "r", "t">> THEN Token("Import", <<>>)
    ELSE Token("Identifier", value)

\* the tokens returned and the cursor afterwards, called with p consumed
tokenize_multi_char(s, p) ==
    With(WordEnd(s, p), LAMBDA end :
        [tokens |-> <<With(SubSeq(s, p + 1, end), ClassifyWord)>>,
         pos |-> end])

-----------------------------------------------------------------------------
(* handle_string_escapes *)

\* str::replace: every non-overlapping match of from, found left to right,
\* becomes to
RECURSIVE Replace(_, _, _)
Replace(s, from, to) ==
    IF s = <<>> THEN <<>>
    ELSE IF StartsWith(s, from) THEN to \o Replace(Drop(s, Len(from)), from, to)
    ELSE <<s[1]>> \o Replace(Tail(s), from, to)

\* the table with a row more, for backslash+q
replacements_WithQ ==
    << <<(<<"\\", "\\">>), <<"\\">> >>,
       <<(<<"\\", "\"">>), <<"\"">> >>,
       <<(<<"\\", "'">>),  <<"'">>  >>,
       <<(<<"\\", "n">>),  <<"\n">> >>,
       <<(<<"\\", "r">>),  <<"\r">> >>,
       <<(<<"\\", "t">>),  <<"\t">> >>,
       <<(<<"\\", "0">>),  <<Nul>>  >>,
       <<(<<"\\", "q">>),  <<"q">>  >> >>

\* the table `replacements`, in its order
replacements ==
    << <<(<<"\\", "\\">>), <<"\\">> >>,
       <<(<<"\\", "\"">>), <<"\"">> >>,
       <<(<<"\\", "'">>),  <<"'">>  >>,
       <<(<<"\\", "n">>),  <<"\n">> >>,
       <<(<<"\\", "r">>),  <<"\r">> >>,
       <<(<<"\\", "t">>),  <<"\t">> >>,
       <<(<<"\\", "0">>),  <<Nul>>  >> >>

\* `original` after the first k replacements
RECURSIVE ApplyReplacements(_, _)
ApplyReplacements(s, k) ==
    IF k = 0 THEN s
    ELSE With(ApplyReplacements(s, k - 1), LAMBDA t :
             Replace(t, replacements[k][1], replacements[k][2]))

\* the content returned as it was read
handle_string_escapes_Verbatim(s) == s

handle_string_escapes(s) == ApplyReplacements(s, Len(replacements))

-----------------------------------------------------------------------------
(* tokenize_string *)

\* the loop, taking the end of the input for a closing quote
RECURSIVE StringLoop_EndCloses(_, _, _)
StringLoop_EndCloses(s, p, value) ==
    IF p >= Len(s) THEN [closed |-> TRUE, value |-> value, pos |-> p]
    ELSE IF s[p + 1] = "\""
         THEN [closed |-> TRUE, value |-> value, pos |-> p + 1]
         ELSE StringLoop_EndCloses(s, p + 1, Append(value, s[p + 1]))

\* the loop, taking a newline for the end of an unclosed literal
RECURSIVE StringLoop_NewlineEnds(_, _, _)
StringLoop_NewlineEnds(s, p, value) ==
    IF p >= Len(s) THEN [closed |-> FALSE, value |-> value, pos |-> p]
    ELSE IF s[p + 1] = "\n"
         THEN [closed |-> FALSE, value |-> value, pos |-> p + 1]
    ELSE IF s[p + 1] = "\""
         THEN [closed |-> TRUE, value |-> value, pos |-> p + 1]
         ELSE StringLoop_NewlineEnds(s, p + 1, Append(value, s[p + 1]))

\* the loop, taking a '"' after a backslash for content
RECURSIVE StringLoop_EscapedQuote(_, _, _)
StringLoop_EscapedQuote(s, p, value) ==
    IF p >= Len(s) THEN [closed |-> FALSE, value |-> value, pos |-> p]
    ELSE IF s[p + 1] = "\\" /\ p + 2 <= Len(s) /\ s[p + 2] = "\""
         THEN StringLoop_EscapedQuote(s, p + 2, value \o <<"\\", "\"">>)
    ELSE IF s[p + 1] = "\""
         THEN [closed |-> TRUE, value |-> value, pos |-> p + 1]
         ELSE StringLoop_EscapedQuote(s, p + 1, Append(value, s[p + 1]))

\* the while loop, with p characters consumed and value accumulated
RECURSIVE StringLoop(_, _, _)
StringLoop(s, p, value) ==
    IF p >= Len(s) THEN [closed |-> FALSE, value |-> value, pos |-> p]
    ELSE IF s[p + 1] = "\""
         THEN [closed |-> TRUE, value |-> value, pos |-> p + 1]
         ELSE StringLoop(s, p + 1, Append(value, s[p + 1]))

UnclosedString == <<"Unclosed string literal">>

\* called with p consumed and the opening quote next
tokenize_string(s, p) ==
    With(StringLoop(s, p + 1, <<>>), LAMBDA r :
        IF ~r.closed
        THEN [ok |-> FALSE, err |-> UnclosedString,
              token |-> Token("String", <<>>), pos |-> r.pos]
        ELSE [ok |-> TRUE, err |-> <<>>,
              token |-> Token("String", handle_string_escapes(r.value)),
              pos |-> r.pos])

-----------------------------------------------------------------------------
(* tokenize *)

Running == [kind |-> "Running", tokens |-> <<>>, msg |-> <<>>]

\* Ok(tokens)
Ok(toks) == [kind |-> "Ok", tokens |-> toks, msg |-> <<>>]

\* Err(message): an Err carries no token
Err(message) == [kind |-> "Err", tokens |-> <<>>, msg |-> message]

\* format!("Unexpected token: {ch}")
UnexpectedToken(ch) == <<"Unexpected token: ", ch>>

\* chars.peek() is Some(ch) and the call has not returned
Peeking == result.kind = "Running" /\ pos < Len(input)

\* *chars.peek().unwrap()
Peek == input[pos + 1]

\* chars.clone().nth(1) == Some('/')
NextIsSlash == pos + 2 <= Len(input) /\ input[pos + 2] = "/"

\* a comment that ends with its two slashes
CommentEnd_NoSkip(s, p) == p

\* the comment's inner loop, consuming the newline too
RECURSIVE CommentEnd_PastNewline(_, _)
CommentEnd_PastNewline(s, p) ==
    IF p >= Len(s) THEN p
    ELSE IF s[p + 1] = "\n" THEN p + 1
    ELSE CommentEnd_PastNewline(s, p + 1)

\* the comment's inner loop: how many characters are consumed once it ends
RECURSIVE CommentEnd(_, _)
CommentEnd(s, p) ==
    IF p < Len(s) /\ s[p + 1] # "\n" THEN CommentEnd(s, p + 1) ELSE p

\* tokens.insert(0, token) in place of tokens.push(token)
Push_Front(token, from, to) ==
    /\ tokens' = <<token>> \o tokens
    /\ spans' = <<(<<from, to>>)>> \o spans

\* tokens.push(token) of a token read from input[from + 1 .. to]
Push(token, from, to) ==
    /\ tokens' = Append(tokens, token)
    /\ spans' = Append(spans, <<from, to>>)

\* the whitespace arm without its chars.next()
SkipWhitespace_NoNext ==
    /\ Peeking
    /\ Peek \in WhitespaceChars
    /\ iters' = iters + 1
    /\ UNCHANGED <<input, pos, tokens, spans, result>>
    /\ UNCHANGED escVars

\* the arm ' ' | '\t' | '\n'
SkipWhitespace ==
    /\ Peeking
    /\ Peek \in WhitespaceChars
    /\ pos' = pos + 1
    /\ iters' = iters + 1
    /\ UNCHANGED <<input, tokens, spans, result>>
    /\ UNCHANGED escVars

\* the arm '/', when a second '/' follows
SkipComment ==
    /\ Peeking
    /\ Peek = "/"
    /\ NextIsSlash
    /\ pos' = CommentEnd(input, pos + 2)
    /\ iters' = iters + 1
    /\ UNCHANGED <<input, tokens, spans, result>>
    /\ UNCHANGED escVars

\* the arm '/' with a lookahead that consumes the character it looks at
PushSlash_ConsumingLookahead ==
    /\ Peeking
    /\ Peek = "/"
    /\ ~NextIsSlash
    /\ Push(Token("Slash", <<>>), pos, pos + 1)
    /\ pos' = IF pos + 2 <= Len(input) THEN pos + 2 ELSE pos + 1
    /\ iters' = iters + 1
    /\ UNCHANGED <<input, result>>
    /\ UNCHANGED escVars

\* the arm '/', otherwise: push_token!(Slash)
PushSlash ==
    /\ Peeking
    /\ Peek = "/"
    /\ ~NextIsSlash
    /\ Push(Token("Slash", <<>>), pos, pos + 1)
    /\ pos' = pos + 1
    /\ iters' = iters + 1
    /\ UNCHANGED <<input, result>>
    /\ UNCHANGED escVars

\* the arms of the brackets and the operators: push_token!(...)
PushFixed ==
    /\ Peeking
    /\ Peek \in FixedChars
    /\ Push(Token(FixedTokenType(Peek), <<>>), pos, pos + 1)
    /\ pos' = pos + 1
    /\ iters' = iters + 1
    /\ UNCHANGED <<input, result>>
    /\ UNCHANGED escVars

\* the arm '"', when tokenize_string returns Ok
ReadString ==
    /\ Peeking
    /\ Peek = "\""
    /\ \E r \in {tokenize_string(input, pos)} :
           /\ r.ok
           /\ Push(r.token, pos, r.pos)
           /\ pos' = r.pos
    /\ iters' = iters + 1
    /\ UNCHANGED <<input, result>>
    /\ UNCHANGED escVars

\* the arm '"', when tokenize_string returns Err and `?` returns it
FailString ==
    /\ Peeking
    /\ Peek = "\""
    /\ \E r \in {tokenize_string(input, pos)} :
           /\ ~r.ok
           /\ result' = Err(r.err)
           /\ pos' = r.pos
    /\ iters' = iters + 1
    /\ UNCHANGED <<input, tokens, spans>>
    /\ UNCHANGED escVars

\* the arm of the alphanumeric characters and '_'
ReadWord ==
    /\ Peeking
    /\ IsWordStart(Peek)
    /\ \E r \in {tokenize_multi_char(input, pos)} :
           /\ tokens' = tokens \o r.tokens
           /\ spans' = spans \o [i \in 1..Len(r.tokens) |-> <<pos, r.pos>>]
           /\ pos' = r.pos
    /\ iters' = iters + 1
    /\ UNCHANGED <<input, result>>
    /\ UNCHANGED escVars

\* the last arm, skipping the character instead of returning
FailUnexpected_Skip ==
    /\ Peeking
    /\ Peek \notin WhitespaceChars \cup {"/", "\""} \cup FixedChars
    /\ ~IsWordStart(Peek)
    /\ pos' = pos + 1
    /\ iters' = iters + 1
    /\ UNCHANGED <<input, tokens, spans, result>>
    /\ UNCHANGED escVars

\* the last arm, consuming the character before it returns
FailUnexpected_Consuming ==
    /\ Peeking
    /\ Peek \notin WhitespaceChars \cup {"/", "\""} \cup FixedChars
    /\ ~IsWordStart(Peek)
    /\ result' = Err(UnexpectedToken(Peek))
    /\ pos' = pos + 1
    /\ iters' = iters + 1
    /\ UNCHANGED <<input, tokens, spans>>
    /\ UNCHANGED escVars

\* the last arm: return Err(format!("Unexpected token: {ch}"))
FailUnexpected ==
    /\ Peeking
    /\ Peek \notin WhitespaceChars \cup {"/", "\""} \cup FixedChars
    /\ ~IsWordStart(Peek)
    /\ result' = Err(UnexpectedToken(Peek))
    /\ iters' = iters + 1
    /\ UNCHANGED <<input, pos, tokens, spans>>
    /\ UNCHANGED escVars

\* the loop ending at the end of the first line too
ReturnOk_AtNewline ==
    /\ result.kind = "Running"
    /\ \/ pos = Len(input)
       \/ pos < Len(input) /\ input[pos + 1] = "\n"
    /\ result' = Ok(tokens)
    /\ UNCHANGED <<input, pos, tokens, spans, iters>>
    /\ UNCHANGED escVars

\* chars.peek() is None: the loop ends and tokenize returns Ok(tokens)
ReturnOk ==
    /\ result.kind = "Running"
    /\ pos = Len(input)
    /\ result' = Ok(tokens)
    /\ UNCHANGED <<input, pos, tokens, spans, iters>>
    /\ UNCHANGED escVars

Next ==
    \/ SkipWhitespace
    \/ SkipComment
    \/ PushSlash
    \/ PushFixed
    \/ ReadString
    \/ FailString
    \/ ReadWord
    \/ FailUnexpected
    \/ ReturnOk

-----------------------------------------------------------------------------
(* The inputs *)

\* the longest input, in fragments
MaxFrags == 4

\* the texts made of at most k fragments of F
RECURSIVE Concats(_, _)
Concats(F, k) ==
    IF k = 0 THEN {<<>>}
    ELSE LET S == Concats(F, k - 1)
         IN  S \cup {s \o f : s \in S, f \in F}

Chars(S) == {<<ch>> : ch \in S}

Fragments ==
    Chars({" ", "\n", "/", "(", "\"", "n", "1", ".", "@", "\\"})

\* a call tokenize(text), about to enter the loop
Start(text) ==
    /\ input = text
    /\ pos = 0
    /\ tokens = <<>>
    /\ spans = <<>>
    /\ iters = 0
    /\ result = Running

NoEscapeCall == raw = <<>> /\ original = <<>> /\ idx = 0

Init ==
    /\ \E text \in Concats(Fragments, MaxFrags) : Start(text)
    /\ NoEscapeCall

Spec == Init /\ [][Next]_vars

\* tokenize runs to its return without being suspended (spec.md section 5:
\* synchronous, single-threaded, no suspension points)
FairSpec == Spec /\ WF_vars(Next)

\* the inputs of the word reader: digits, dots, letters, the keywords, the
\* texts a float parse accepts, and the neighbourhood of u64::MAX
MaxWordFrags == 3

U64MaxPlusOne ==
    <<"1", "8", "4", "4", "6", "7", "4", "4", "0", "7",
      "3", "7", "0", "9", "5", "5", "1", "6", "1", "6">>

Words ==
    { <<"t", "r", "u", "e">>, <<"f", "a", "l", "s", "e">>, <<"l", "e", "t">>,
      <<"i", "m", "p", "o", "r", "t">>, <<"i", "n", "f">>, <<"N", "a", "N">>,
      <<".", "1">>, U64MaxDigits, U64MaxPlusOne }

WordFragments ==
    Chars({"1", "0", ".", "e", "_", "n", " ", "/", "(", "\"", "@"}) \cup Words

InitWord ==
    /\ \E text \in Concats(WordFragments, MaxWordFrags) : Start(text)
    /\ NoEscapeCall

SpecWord == InitWord /\ [][Next]_vars

\* what the dispatch loop returns when it runs from p characters consumed
\* and the tokens toks: the loop of tokenize as a function
RECURSIVE Loop(_, _, _)
Loop(s, p, toks) ==
    IF p >= Len(s) THEN Ok(toks)
    ELSE IF s[p + 1] \in WhitespaceChars THEN Loop(s, p + 1, toks)
    ELSE IF s[p + 1] = "/"
         THEN IF p + 2 <= Len(s) /\ s[p + 2] = "/"
              THEN Loop(s, CommentEnd(s, p + 2), toks)
              ELSE Loop(s, p + 1, Append(toks, Token("Slash", <<>>)))
    ELSE IF s[p + 1] \in FixedChars
         THEN Loop(s, p + 1, Append(toks, Token(FixedTokenType(s[p + 1]), <<>>)))
    ELSE IF s[p + 1] = "\""
         THEN With(tokenize_string(s, p), LAMBDA r :
                  IF r.ok THEN Loop(s, r.pos, Append(toks, r.token))
                  ELSE Err(r.err))
    ELSE IF IsWordStart(s[p + 1])
         THEN With(tokenize_multi_char(s, p), LAMBDA r :
                  Loop(s, r.pos, toks \o r.tokens))
    ELSE Err(UnexpectedToken(s[p + 1]))

\* the value tokenize(text) returns
tokenize(text) == Loop(text, 0, <<>>)

\* the inputs of the comment arm: comments that hold quotes and illegal
\* characters, with tokens before and after
MaxCommentFrags == 4

CommentFragments ==
    Chars({" ", "\n", "/", "(", "\"", "n", "@"}) \cup {<<"/", "/">>}

InitComment ==
    /\ \E text \in Concats(CommentFragments, MaxCommentFrags) : Start(text)
    /\ NoEscapeCall

SpecComment == InitComment /\ [][Next]_vars

\* the inputs of the single-character arms: every bracket and operator, the
\* slash, and a character of each other arm
MaxFixedFrags == 3

FixedFragments ==
    Chars(FixedChars \cup {"/", " ", "\"", "n", "@", ","})

InitFixed ==
    /\ \E text \in Concats(FixedFragments, MaxFixedFrags) : Start(text)
    /\ NoEscapeCall

SpecFixed == InitFixed /\ [][Next]_vars

\* the inputs of the string arm: literals with escape markers in them, and a
\* character of each other arm (a lone backslash has no arm)
MaxStringFrags == 4

StringFragments ==
    Chars({"\"", "a", "\\", " ", "/", "("})
        \cup {<<"\\", ch>> : ch \in {"n", "'", "r", "t", "0"}}

InitString ==
    /\ \E text \in Concats(StringFragments, MaxStringFrags) : Start(text)
    /\ NoEscapeCall

SpecString == InitString /\ [][Next]_vars

-----------------------------------------------------------------------------
(* A call handle_string_escapes(raw), one replacement of the loop a step *)

MaxRaw == 4

EscapeChars == {"\\", "\"", "'", "n", "r", "t", "0", "q"}

NoTokenizeCall == Start(<<>>)

InitEsc ==
    /\ raw \in Concats(Chars(EscapeChars), MaxRaw)
    /\ original = raw
    /\ idx = 0
    /\ NoTokenizeCall

\* one iteration of `for replacement in replacements`
ApplyReplacement ==
    /\ idx < Len(replacements)
    /\ original' = Replace(original, replacements[idx + 1][1],
                           replacements[idx + 1][2])
    /\ idx' = idx + 1
    /\ UNCHANGED raw
    /\ UNCHANGED tokVars

NextEsc == ApplyReplacement

SpecEsc == InitEsc /\ [][NextEsc]_vars

-----------------------------------------------------------------------------
(* The claims *)

Returned == result.kind # "Running"

\* the call returned Ok with the one token of the given variant and payload
ReturnedOne(type, value) ==
    /\ result.kind = "Ok"
    /\ Len(result.tokens) = 1
    /\ result.tokens[1].type = type
    /\ result.tokens[1].value = value

DigitsOnly(s) == s # <<>> /\ \A i \in 1..Len(s) : s[i] \in Digits

\* the number the digits n (without leading zeros) denote is at most u64::MAX
AtMostU64Max(n) ==
    \/ Len(n) < 20
    \/ /\ Len(n) = 20
       /\ \/ n = U64MaxDigits
          \/ \E i \in 1..20 :
                /\ DigitValue(n[i]) < DigitValue(U64MaxDigits[i])
                /\ \A j \in 1..(i - 1) : n[j] = U64MaxDigits[j]

\* C1, as claimed: an input that is a non-empty run of ASCII digits, of any
\* magnitude, returns Ok with exactly one token, a Number
C1_AnyDigitsNumber ==
    (DigitsOnly(input) /\ Returned)
        => (result.kind = "Ok" /\ Len(result.tokens) = 1
            /\ result.tokens[1].type = "Number")

\* C1, amended: an input that is a non-empty run of ASCII digits returns Ok
\* with exactly one token: the Number of its value when the value is at most
\* u64::MAX, and a Float when it is larger
C1_DigitsNumberUpToU64Max ==
    (DigitsOnly(input) /\ Returned)
        => LET n == StripLeadingZeros(input)
           IN  IF AtMostU64Max(n)
               THEN ReturnedOne("Number", n)
               ELSE /\ result.kind = "Ok"
                    /\ Len(result.tokens) = 1
                    /\ result.tokens[1].type = "Float"

\* C1's case: a run of digits of the largest value a u64 holds was tokenized
C1_Witness ==
    /\ input = <<"0">> \o U64MaxDigits
    /\ ReturnedOne("Number", U64MaxDigits)

\* the character a recognized escape backslash+ch stands for
Decoded(ch) ==
    CASE ch = "\\" -> "\\"
      [] ch = "\"" -> "\""
      [] ch = "'"  -> "'"
      [] ch = "n"  -> "\n"
      [] ch = "r"  -> "\r"
      [] ch = "t"  -> "\t"
      [] ch = "0"  -> Nul

EscapeLetters == {"\\", "\"", "'", "n", "r", "t", "0"}

\* a single left-to-right scan: each recognized two-character escape is
\* decoded once, every other character is copied
RECURSIVE ScanDecode(_)
ScanDecode(s) ==
    IF s = <<>> THEN <<>>
    ELSE IF s[1] = "\\" /\ Len(s) >= 2 /\ s[2] \in EscapeLetters
         THEN <<Decoded(s[2])>> \o ScanDecode(Tail2(s))
         ELSE <<s[1]>> \o ScanDecode(Tail(s))

EscapesDone == idx = Len(replacements)

\* C2, as claimed: for every raw content, handle_string_escapes returns what
\* a single left-to-right scan returns (a backslash that the first
\* replacement produced does not start an escape of a later replacement)
C2_SameAsSingleScan == EscapesDone => original = ScanDecode(raw)

\* C3: tokenize terminates: every iteration of the dispatch loop consumes at
\* least one character or returns, the loop runs at most Len(input)
\* iterations, and the call eventually returns Ok or Err
C3_Terminates ==
    /\ [][Returned' \/ pos' > pos]_vars
    /\ [](iters <= Len(input) /\ (~Returned => iters <= pos))
    /\ <>Returned

\* C3's case: a call returned after as many iterations as the input is long
C3_Witness ==
    /\ Returned
    /\ Len(input) = MaxFrags
    /\ iters = Len(input)

\* the characters that no arm of the dispatch but the last one takes
Illegal(ch) ==
    /\ ch \notin {" ", "\t", "\n", "/", "\""}
    /\ ch \notin {"(", ")", "[", "]", "{", "}", "+", "-", "*", "="}
    /\ ~IsAlphanumeric(ch)
    /\ ch # "_"

\* C4: when the dispatch loop peeks a character that no arm takes, tokenize
\* returns Err("Unexpected token: <that character>") at once: the cursor
\* stays before that character and the Err carries none of the tokens
C4_UnexpectedToken ==
    [][(Peeking /\ Illegal(Peek))
        => /\ result' = [kind |-> "Err", tokens |-> <<>>,
                         msg |-> <<"Unexpected token: ", input[pos + 1]>>]
           /\ pos' = pos
           /\ tokens' = tokens]_vars

\* C4's case: an illegal character was met after a token was accumulated and
\* with more characters after it
C4_Witness ==
    /\ result.kind = "Err"
    /\ result.msg = <<"Unexpected token: ", "@">>
    /\ tokens # <<>>
    /\ pos + 1 < Len(input)

\* the index of the first '"' after the opening quote at index open, 0 if none
FirstQuoteAfter(s, open) ==
    IF \E j \in (open + 1)..Len(s) : s[j] = "\""
    THEN CHOOSE j \in (open + 1)..Len(s) :
            /\ s[j] = "\""
            /\ \A k \in (open + 1)..(j - 1) : s[k] # "\""
    ELSE 0

\* C5: at an opening quote with no '"' after it, tokenize returns
\* Err("Unclosed string literal") and pushes no token; with a '"' after it,
\* one String token is pushed and the cursor is just past the first such '"'
C5_UnclosedString ==
    [][(Peeking /\ Peek = "\"")
        => LET close == FirstQuoteAfter(input, pos + 1)
           IN  IF close = 0
               THEN /\ result' = [kind |-> "Err", tokens |-> <<>>,
                                  msg |-> <<"Unclosed string literal">>]
                    /\ tokens' = tokens
               ELSE /\ result' = result
                    /\ pos' = close
                    /\ Len(tokens') = Len(tokens) + 1
                    /\ SubSeq(tokens', 1, Len(tokens)) = tokens
                    /\ tokens'[Len(tokens')].type = "String"]_vars

\* C5's case: a closed literal was read, then an unclosed one ended the call
C5_Witness ==
    /\ result.kind = "Err"
    /\ result.msg = <<"Unclosed string literal">>
    /\ Len(tokens) = 1
    /\ tokens[1] = Token("String", <<"n">>)

\* the text is made of whitespace and line comments only
RECURSIVE OnlyBlank(_)
OnlyBlank(s) ==
    IF s = <<>> THEN TRUE
    ELSE IF s[1] \in {" ", "\t", "\n"} THEN OnlyBlank(Tail(s))
    ELSE IF Len(s) >= 2 /\ s[1] = "/" /\ s[2] = "/"
         THEN IF \E j \in 3..Len(s) : s[j] = "\n"
              THEN OnlyBlank(SubSeq(s, (CHOOSE j \in 3..Len(s) :
                                           /\ s[j] = "\n"
                                           /\ \A k \in 3..(j - 1) : s[k] # "\n"),
                                    Len(s)))
              ELSE TRUE
    ELSE FALSE

\* C6: on an input made of whitespace and line comments only (the empty
\* input too), tokenize pushes no token, does not fail, and returns Ok with
\* an empty token sequence
C6_BlankInputEmpty ==
    /\ [](OnlyBlank(input) => (tokens = <<>> /\ result.kind # "Err"))
    /\ [](OnlyBlank(input)
            => <>(result = [kind |-> "Ok", tokens |-> <<>>, msg |-> <<>>]))

\* C6's case: a comment holding a character that is illegal or a quote
\* outside it, with whitespace around, was tokenized to nothing
C6_Witness ==
    /\ result = [kind |-> "Ok", tokens |-> <<>>, msg |-> <<>>]
    /\ Len(input) = 4
    /\ input[1] = " "
    /\ input[4] \in {"@", "\""}

\* input[from + 1 .. to] is a maximal run of word characters
MaximalRun(s, from, to) ==
    /\ from < to
    /\ to <= Len(s)
    /\ \A k \in (from + 1)..to :
          s[k] \in Digits \cup LowerLetters \cup UpperLetters \cup {"_", "."}
    /\ to < Len(s)
          => s[to + 1] \notin
                Digits \cup LowerLetters \cup UpperLetters \cup {"_", "."}

\* the token C7 names for the run text w
FirstMatch(w) ==
    LET int   == ParseU64Ok(w)
        float == ParseF64Ok(w)
    IN  CASE int -> [type |-> "Number", value |-> ParseU64(w)]
          [] ~int /\ float -> [type |-> "Float", value |-> ParseF64(w)]
          [] ~int /\ ~float /\ w = <<"t", "r", "u", "e">> ->
                [type |-> "Bool", value |-> <<"true">>]
          [] ~int /\ ~float /\ w = <<"f", "a", "l", "s", "e">> ->
                [type |-> "Bool", value |-> <<"false">>]
          [] ~int /\ ~float /\ w = <<"l", "e", "t">> ->
                [type |-> "Let", value |-> <<>>]
          [] ~int /\ ~float /\ w = <<"i", "m", "p", "o", "r", "t">> ->
                [type |-> "Import", value |-> <<>>]
          [] OTHER -> [type |-> "Identifier", value |-> w]

\* C7: the word reader consumes the maximal run and pushes exactly one
\* token, chosen by first match: Number if the run parses as u64, else Float
\* if it parses as f64, else Bool for true/false, else Let, else Import, else
\* Identifier with the raw text; tokenize does not return in that step
C7_WordPrecedence ==
    [][(Peeking /\ (IsAlphanumeric(Peek) \/ Peek = "_"))
        => /\ result' = result
           /\ MaximalRun(input, pos, pos')
           /\ tokens' = Append(tokens,
                               FirstMatch(SubSeq(input, pos + 1, pos')))]_vars

\* C7's case: a keyword and a number were read in one call
C7_Witness ==
    /\ Len(tokens) = 2
    /\ tokens[1] = Token("Bool", <<"true">>)
    /\ tokens[2] = Token("Number", <<"1">>)

LettersOnly(s) ==
    /\ s # <<>>
    /\ \A i \in 1..Len(s) : s[i] \in LowerLetters \cup UpperLetters \cup {"_"}

Keywords ==
    { <<"t", "r", "u", "e">>, <<"f", "a", "l", "s", "e">>, <<"l", "e", "t">>,
      <<"i", "m", "p", "o", "r", "t">> }

\* C8, as claimed: an input that is one word of letters and underscores, and
\* none of true, false, let, import, returns Ok with the single token
\* Identifier holding the word
C8_LettersIdentifier ==
    (LettersOnly(input) /\ input \notin Keywords /\ Returned)
        => ReturnedOne("Identifier", input)

DotCount(s) == Cardinality({i \in 1..Len(s) : s[i] = "."})

\* a word of digits and dots that starts with a digit
DigitsAndDots(s) ==
    /\ s # <<>>
    /\ s[1] \in Digits
    /\ \A i \in 1..Len(s) : s[i] \in Digits \cup {"."}

\* C9, as claimed: an input of digits and dots that starts with a digit and
\* has two dots, or ends in a dot, returns Ok with the single token
\* Identifier holding the raw text
C9_MalformedIdentifier ==
    (DigitsAndDots(input) /\ Returned
        /\ (DotCount(input) >= 2 \/ input[Len(input)] = "."))
        => ReturnedOne("Identifier", input)

\* C9, amended: an input of digits and dots that starts with a digit returns
\* Ok with a single token: Identifier holding the raw text when it has two
\* or more dots, and Float (the digits before the dot, as a float) when its
\* only dot is its last character
C9_TwoDotsIdentifier ==
    (DigitsAndDots(input) /\ Returned)
        => /\ DotCount(input) >= 2 => ReturnedOne("Identifier", input)
           /\ (DotCount(input) = 1 /\ input[Len(input)] = ".")
                => ReturnedOne("Float",
                       StripLeadingZeros(SubSeq(input, 1, Len(input) - 1))
                           \o <<".", "0">>)

\* C9's case: a word with two dots between digits was tokenized
C9_Witness ==
    /\ input = <<"1", ".", "1", ".", "1">>
    /\ ReturnedOne("Identifier", input)

\* C10: the token sequence only grows, by one token appended at its end;
\* each token's source span is not empty, starts at or after the end of the
\* span of the token before it, and starts neither at a whitespace character
\* nor at a comment; Ok returns the tokens in that order
C10_AppendOnly ==
    /\ [][\/ tokens' = tokens
          \/ /\ Len(tokens') = Len(tokens) + 1
             /\ SubSeq(tokens', 1, Len(tokens)) = tokens]_vars
    /\ [](/\ Len(spans) = Len(tokens)
          /\ \A i \in 1..Len(spans) :
                /\ spans[i][1] < spans[i][2]
                /\ spans[i][2] <= pos
                /\ i > 1 => spans[i - 1][2] <= spans[i][1]
                /\ input[spans[i][1] + 1] \notin {" ", "\t", "\n"}
                /\ ~(/\ spans[i][1] + 2 <= Len(input)
                     /\ input[spans[i][1] + 1] = "/"
                     /\ input[spans[i][1] + 2] = "/"))
    /\ [](result.kind = "Ok" => result.tokens = tokens)

\* C10's case: two tokens with whitespace or a comment between them
C10_Witness ==
    /\ result.kind = "Ok"
    /\ Len(result.tokens) = 2
    /\ spans[1][2] < spans[2][1]

\* the index of the first newline after index from of s, Len(s) + 1 if none
LineEnd(s, from) ==
    IF \E j \in (from + 1)..Len(s) : s[j] = "\n"
    THEN CHOOSE j \in (from + 1)..Len(s) :
            /\ s[j] = "\n"
            /\ \A k \in (from + 1)..(j - 1) : s[k] # "\n"
    ELSE Len(s) + 1

\* the message of the leftmost failure of a scan of s that is at a dispatch
\* position with p characters behind it; <<>> when the scan meets none
RECURSIVE FirstFailure(_, _)
FirstFailure(s, p) ==
    IF p >= Len(s) THEN <<>>
    ELSE IF Illegal(s[p + 1]) THEN <<"Unexpected token: ", s[p + 1]>>
    ELSE IF s[p + 1] = "\""
         THEN IF FirstQuoteAfter(s, p + 1) = 0
              THEN <<"Unclosed string literal">>
              ELSE FirstFailure(s, FirstQuoteAfter(s, p + 1))
    ELSE IF s[p + 1] = "/" /\ p + 2 <= Len(s) /\ s[p + 2] = "/"
         THEN FirstFailure(s, LineEnd(s, p + 2) - 1)
    ELSE IF IsAlphanumeric(s[p + 1]) \/ s[p + 1] = "_"
         THEN FirstFailure(s, CHOOSE e \in (p + 1)..Len(s) :
                                  MaximalRun(s, p, e))
    ELSE FirstFailure(s, p + 1)

\* C11: a call that returned has returned Ok with the tokens, or
\* Err("Unexpected token: c") with c the input character at the cursor, or
\* Err("Unclosed string literal"); the Err is the one of the leftmost failing
\* position of the scan, Ok is returned only when the scan meets none, and
\* once an Err is returned the cursor does not move
C11_ThreeOutcomes ==
    /\ [](Returned
            => /\ result.msg = FirstFailure(input, 0)
               /\ \/ /\ result.kind = "Ok"
                     /\ result.msg = <<>>
                     /\ result.tokens = tokens
                  \/ /\ result.kind = "Err"
                     /\ result.tokens = <<>>
                     /\ pos < Len(input)
                     /\ result.msg = <<"Unexpected token: ", input[pos + 1]>>
                  \/ /\ result.kind = "Err"
                     /\ result.tokens = <<>>
                     /\ result.msg = <<"Unclosed string literal">>)
    /\ [][result.kind = "Err" => pos' = pos]_vars

\* C11's case: an illegal character at a dispatch position, before a quote
\* that nothing closes, gave the unexpected-token error
C11_Witness ==
    /\ result.kind = "Err"
    /\ result.msg = <<"Unexpected token: ", "@">>
    /\ pos + 2 = Len(input)
    /\ input[Len(input)] = "\""

\* s without its characters from + 1 .. to
Without(s, from, to) == SubSeq(s, 1, from) \o SubSeq(s, to + 1, Len(s))

\* C12: at a dispatch position, '//' makes the step consume both slashes and
\* every character before the next newline (or to the end of the input),
\* whatever these characters are, without pushing a token and without
\* returning; and the call returns what tokenize returns on the input with
\* that comment taken out
C12_LineComment ==
    /\ [][(Peeking /\ Peek = "/"
            /\ pos + 2 <= Len(input) /\ input[pos + 2] = "/")
            => /\ pos' = LineEnd(input, pos + 2) - 1
               /\ tokens' = tokens
               /\ result' = result
               /\ tokenize(Without(input, pos, pos')) = tokenize(input)]_vars
    /\ [](Returned => result = tokenize(input))

\* C12's case: a comment that holds a quote or an illegal character was
\* skipped and the word on the next line was tokenized
C12_Witness ==
    /\ result.kind = "Ok"
    /\ Len(input) = 5
    /\ SubSeq(input, 1, 2) = <<"/", "/">>
    /\ input[3] \in {"@", "\""}
    /\ input[4] = "\n"
    /\ result.tokens = <<Token("Identifier", <<"n">>)>>

\* the characters of the single-character tokens and, in the same order, the
\* tokens
SingleChars == <<"(", ")", "[", "]", "{", "}", "+", "-", "*", "=", "/">>

SingleTokens ==
    <<"LParen", "RParen", "LBracket", "RBracket", "LBrace", "RBrace",
      "Plus", "Minus", "Multiply", "Equals", "Slash">>

SingleTokenOf(ch) ==
    Token(SingleTokens[CHOOSE i \in 1..Len(SingleChars) : SingleChars[i] = ch],
          <<>>)

\* a dispatch on a bracket or an operator, or on a '/' that no '/' follows
SingleDispatch ==
    /\ result.kind = "Running"
    /\ pos < Len(input)
    /\ \E i \in 1..Len(SingleChars) : SingleChars[i] = input[pos + 1]
    /\ input[pos + 1] = "/" =>
           (pos + 2 > Len(input) \/ input[pos + 2] # "/")

\* C13: a dispatch on one of ( ) [ ] { } + - * = or on a '/' that is not
\* followed by '/' appends exactly the token of that character, moves the
\* cursor by exactly one character and does not return; the character after
\* a '/' is still to be dispatched
C13_SingleCharToken ==
    [][SingleDispatch
        => /\ tokens' = Append(tokens, SingleTokenOf(input[pos + 1]))
           /\ pos' = pos + 1
           /\ result' = result
           /\ Loop(input, pos', tokens') = tokenize(input)]_vars

\* C13's case: a '/' before a bracket or an operator was pushed as Slash with
\* that character left for the next dispatch, and a '/' that ends the input
\* was pushed as Slash
C13_Witness ==
    /\ result.kind = "Ok"
    /\ Len(input) = 3
    /\ input[1] = "/"
    /\ input[2] \in FixedChars
    /\ input[3] = "/"
    /\ result.tokens = <<Token("Slash", <<>>), SingleTokenOf(input[2]),
                         Token("Slash", <<>>)>>

\* the text has no backslash
NoBackslash(s) == \A i \in 1..Len(s) : s[i] # "\\"

\* C14: at an opening quote with a '"' after it, the String token pushed holds
\* the escape decoding of exactly the characters between the opening quote
\* and the first '"' after it, and these characters themselves when none is
\* a backslash, whatever they are (newline, '//', a character with no arm);
\* no error is returned; "" gives String("")
C14_StringVerbatim ==
    [][(Peeking /\ Peek = "\"" /\ FirstQuoteAfter(input, pos + 1) # 0)
        => LET close == FirstQuoteAfter(input, pos + 1)
               between == SubSeq(input, pos + 2, close - 1)
           IN  /\ tokens' = Append(tokens,
                       Token("String", handle_string_escapes(between)))
               /\ NoBackslash(between)
                     => tokens'[Len(tokens')].value = between
               /\ close = pos + 2
                     => tokens'[Len(tokens')] = Token("String", <<>>)
               /\ result' = result]_vars

\* C14's case: a literal holding a newline, '//' or a character with no arm
\* was tokenized as one String token with these characters as content
C14_Witness ==
    /\ result.kind = "Ok"
    /\ Len(input) = 4
    /\ input[1] = "\""
    /\ SubSeq(input, 2, 3) \in {<<"/", "/">>, <<"\n", "@">>, <<"@", "\n">>}
    /\ result.tokens = <<Token("String", SubSeq(input, 2, 3))>>

\* C15: no step moves the cursor backward or past the end of the input, so
\* no character is consumed twice; the characters the tokens were read from
\* follow each other without overlap inside the consumed part; and a call
\* that returned Ok consumed the whole input
C15_CursorForward ==
    /\ [][pos <= pos' /\ pos' <= Len(input) /\ input' = input]_vars
    /\ [](/\ \A i \in 1..Len(spans) :
                /\ spans[i][1] < spans[i][2]
                /\ spans[i][2] <= pos
                /\ i < Len(spans) => spans[i][2] <= spans[i + 1][1]
          /\ result.kind = "Ok" => pos = Len(input))

\* C15's case: a call returned Ok after steps of several arms, one of them
\* consuming more than one character
C15_Witness ==
    /\ result.kind = "Ok"
    /\ pos = Len(input)
    /\ Len(input) = MaxFrags
    /\ Len(tokens) = 2
    /\ iters = 3
    /\ \E i \in 1..Len(spans) : spans[i][2] > spans[i][1] + 1

\* the variants the word reader pushes
WordClass == {"Number", "Float", "Bool", "Let", "Import", "Identifier"}

\* alphanumeric, '_' or '.'
WordChar(ch) == ch \in Digits \cup LowerLetters \cup UpperLetters \cup {"_", "."}

\* C16: a '.' at a dispatch position is an unexpected-character error; a step
\* that pushes a word-class token starts at an alphanumeric character or
\* '_', pushes that one token and consumes the maximal run of alphanumeric
\* characters, '_' and '.', so that the next character, if any, is none of
\* these; two consecutive word-class tokens have a character that is none of
\* these between them in the input
C16_MaximalMunch ==
    /\ [][(Peeking /\ Peek = ".")
            => /\ result' = [kind |-> "Err", tokens |-> <<>>,
                             msg |-> <<"Unexpected token: ", ".">>]
               /\ tokens' = tokens
               /\ pos' = pos]_vars
    /\ [][(Len(tokens') > Len(tokens)
            /\ tokens'[Len(tokens')].type \in WordClass)
            => /\ input[pos + 1] \in
                     Digits \cup LowerLetters \cup UpperLetters \cup {"_"}
               /\ Len(tokens') = Len(tokens) + 1
               /\ MaximalRun(input, pos, pos')
               /\ pos' < Len(input) => ~WordChar(input[pos' + 1])]_vars
    /\ [](\A i \in 1..(Len(tokens) - 1) :
             (tokens[i].type \in WordClass /\ tokens[i + 1].type \in WordClass)
                => \E k \in (spans[i][2] + 1)..spans[i + 1][1] :
                       ~WordChar(input[k]))

\* C16's case: a run with a '.' inside became one token, and two word-class
\* tokens were read on the two sides of a non-word character
C16_Witness ==
    /\ result.kind = "Ok"
    /\ \/ /\ input = <<"n", ".", "n">>
          /\ result.tokens = <<Token("Identifier", input)>>
       \/ /\ input = <<"n", " ", "1">>
          /\ result.tokens = <<Token("Identifier", <<"n">>),
                               Token("Number", <<"1">>)>>

\* the indices of the backslashes of the text
Backslashes(s) == {i \in 1..Len(s) : s[i] = "\\"}

\* C17: at a literal whose raw content has exactly one backslash, followed by
\* n, ', r, t or 0, the String token pushed holds the raw content with the
\* two characters of the marker replaced by the one character it stands for
\* (newline, apostrophe, carriage return, tab, NUL): one character less than
\* the raw content
C17_SingleEscapeDecoded ==
    [][(Peeking /\ Peek = "\"" /\ FirstQuoteAfter(input, pos + 1) # 0)
        => LET close   == FirstQuoteAfter(input, pos + 1)
               between == SubSeq(input, pos + 2, close - 1)
           IN  \A k \in 1..(Len(between) - 1) :
                  (Backslashes(between) = {k}
                   /\ between[k + 1] \in {"n", "'", "r", "t", "0"})
                  => LET char == CASE between[k + 1] = "n" -> "\n"
                                   [] between[k + 1] = "'" -> "'"
                                   [] between[k + 1] = "r" -> "\r"
                                   [] between[k + 1] = "t" -> "\t"
                                   [] between[k + 1] = "0" -> Nul
                     IN  /\ tokens' = Append(tokens, Token("String",
                                 SubSeq(between, 1, k - 1) \o <<char>>
                                   \o SubSeq(between, k + 2, Len(between))))
                         /\ Len(tokens'[Len(tokens')].value)
                               = Len(between) - 1
                         /\ result' = result]_vars

\* C17's case: the literal "a\n" of the source was tokenized as one String
\* of two characters, the second a newline
C17_Witness ==
    /\ result.kind = "Ok"
    /\ input = <<"\"", "a", "\\", "n", "\"">>
    /\ result.tokens = <<Token("String", <<"a", "\n">>)>>

\* for each q of the text from index i on, in order: is a backslash just
\* before it
RECURSIVE AfterBackslash(_, _)
AfterBackslash(s, i) ==
    IF i > Len(s) THEN <<>>
    ELSE IF s[i] = "q"
         THEN <<(i > 1 /\ s[i - 1] = "\\")>> \o AfterBackslash(s, i + 1)
         ELSE AfterBackslash(s, i + 1)

\* every backslash of the text is followed by q
OnlyUnrecognized(s) ==
    \A i \in 1..Len(s) : s[i] = "\\" => (i < Len(s) /\ s[i + 1] = "q")

\* C18: for every raw content, handle_string_escapes returns a text with the
\* same q's, each q that followed a backslash still just after a backslash
\* (and no other q after one); a content whose backslashes are all followed
\* by q is returned unchanged
C18_UnrecognizedVerbatim ==
    EscapesDone
        => /\ AfterBackslash(original, 1) = AfterBackslash(raw, 1)
           /\ OnlyUnrecognized(raw) => original = raw

\* C18's case: a content with backslash+q and a recognized escape was
\* decoded
C18_Witness ==
    /\ EscapesDone
    /\ raw = <<"\\", "q", "\\", "n">>
    /\ original = <<"\\", "q", "\n">>

\* C19: no String token holds a '"'; the literal at an opening quote ends at
\* the first '"' after it, a backslash before that '"' or not, so the raw
\* content has no '"' and the replacement of backslash+'"' finds no match
C19_NoQuoteInString ==
    /\ [](\A i \in 1..Len(tokens) :
             tokens[i].type = "String"
                => \A k \in 1..Len(tokens[i].value) :
                      tokens[i].value[k] # "\"")
    /\ [][(Peeking /\ Peek = "\"" /\ FirstQuoteAfter(input, pos + 1) # 0)
            => LET close   == FirstQuoteAfter(input, pos + 1)
                   between == SubSeq(input, pos + 2, close - 1)
                   first   == Replace(between, <<"\\", "\\">>, <<"\\">>)
               IN  /\ pos' = close
                   /\ Replace(first, <<"\\", "\"">>, <<"\"">>) = first
                   /\ tokens' = Append(tokens,
                          Token("String", handle_string_escapes(between)))]_vars

\* C19's case: the source literal "\"" was read as the String of one
\* backslash, ended by the quote after the backslash, and the last quote
\* opened a literal that is not closed
C19_Witness ==
    /\ input = <<"\"", "\\", "\"", "\"">>
    /\ result.kind = "Err"
    /\ result.msg = <<"Unclosed string literal">>
    /\ tokens = <<Token("String", <<"\\">>)>>

====
